---- MODULE Spec2Model ----
(***************************************************************************)
(* glox: the token-level pipeline of cmd/glox.go `run`.                    *)
(*   tokens --Parser.Parse--> Expr | nil --Interpreter.Interpret--> value  *)
(* The recursive-descent parser (internal/frontend.go) and the tree-       *)
(* walking interpreter (internal/backend.go) run on an explicit call       *)
(* stack: one action per Go function, one step per stretch of its body     *)
(* between two calls.                                                      *)
(***************************************************************************)
EXTENDS Integers, Sequences, FiniteSets, TLC

VARIABLES
    tokens,       \* []Token handed to NewParser (ends with the TokenEof token)
    current,      \* Parser.current
    stack,        \* the goroutine's call stack, innermost frame last
    ret,          \* the value(s) returned by the call that returned last
    panicking,    \* "none", or the value of the panic unwinding the stack
    expr,         \* the local expr of run (NilExpr for Go nil, and before it is set)
    reporter,     \* StateErrorReporter: HadError, HadRuntimeError, stderr lines
    stdout,       \* lines written by fmt.Println in Interpreter.Interpret
    visits,       \* the nodes Interpreter.visit entered, in order (paths from the root)
    fatal,        \* "none", or the fault that ended the process
    result,       \* ErrorType returned by run ("none" before it returns)
    scanner       \* the Scanner of Frontend.Parse, and the point it has reached

vars == <<tokens, current, stack, ret, panicking, expr, reporter, stdout, visits, fatal,
          result, scanner>>

----------------------------------------------------------------------------
(* Bounds of the model. *)

\* Longest token sequence (end marker excluded) enumerated exhaustively.
MaxLen == 3

\* Number of frames at which the goroutine stack is exhausted. Go's limit
\* is 1 GB of stack; this one is well above what parsing and evaluating the
\* bounded inputs needs (12 frames, and 9 more for each nesting).
MaxStack == 60

----------------------------------------------------------------------------
(* Values. *)

\* Go nil as a Token.Literal, a Literal.Value or a runtime value.
Nil == [t |-> "nil"]

\* A float64, as the sign s, and the magnitude n/d: d = 0 /\ n = 1 is an
\* infinity, d = 0 /\ n = 0 is NaN, n = 0 /\ d = 1 is a (signed) zero.
Float(s, n, d) == [t |-> "float64", s |-> s, n |-> n, d |-> d]
NaN == Float(1, 0, 0)

\* Go string and bool runtime values.
GoString(x) == [t |-> "string", str |-> x]
GoBool(b) == [t |-> "bool", b |-> b]

\* The wrapper structs Number, Boolean, String.
Number(f) == [t |-> "Number", V |-> f]
Boolean(b) == [t |-> "Boolean", Vb |-> b]
String(x) == [t |-> "String", Vs |-> x]

----------------------------------------------------------------------------
(* Tokens. *)

Token(type, lexeme, literal, line) ==
    [Type |-> type, Lexeme |-> lexeme, Literal |-> literal, Line |-> line]

\* The zero value Token{}: Type 0 is TokenLeftParen, no lexeme, line 0.
ZeroToken == Token("TokenLeftParen", "", Nil, 0)

----------------------------------------------------------------------------
(* Reporter. *)

NewReporter == [HadError |-> FALSE, HadRuntimeError |-> FALSE, stderr |-> <<>>]

Report(rep, line, where, message) ==
    [rep EXCEPT !.stderr = Append(@, [kind |-> "Error", line |-> line,
                                      where |-> where, message |-> message]),
                !.HadError = TRUE]

Error(rep, line, message) == Report(rep, line, <<>>, message)

ReporterRuntimeError(rep, e) ==
    [rep EXCEPT !.stderr = Append(@, [kind |-> "RuntimeError", line |-> e.Token.Line,
                                      where |-> <<>>, message |-> e.Msg]),
                !.HadRuntimeError = TRUE]

----------------------------------------------------------------------------
(* Expression tree. *)

NilExpr == [kind |-> "nil"]
Literal(v) == [kind |-> "Literal", Value |-> v]
Grouping(e) == [kind |-> "Grouping", Expression |-> e]
Unary(op, right) == [kind |-> "Unary", Operator |-> op, Right |-> right]
Binary(left, op, right) ==
    [kind |-> "Binary", Left |-> left, Operator |-> op, Right |-> right]
Ternary(cond, t, f) ==
    [kind |-> "Ternary", Cond |-> cond, TrueBranch |-> t, FalseBranch |-> f]

----------------------------------------------------------------------------
(* float64 arithmetic on the values the bounded inputs produce. Finite     *)
(* values are exact fractions; infinities, NaN and signed zeros follow     *)
(* IEEE-754.                                                               *)

RECURSIVE Gcd(_, _)
Gcd(a, b) == IF b = 0 THEN a ELSE Gcd(b, a % b)

FNorm(s, n, d) ==
    IF d = 0 THEN Float(IF n = 0 THEN 1 ELSE s, IF n = 0 THEN 0 ELSE 1, 0)
    ELSE IF n = 0 THEN Float(s, 0, 1)
    ELSE Float(s, n \div Gcd(n, d), d \div Gcd(n, d))

FIsNaN(a) == a.n = 0 /\ a.d = 0
FIsInf(a) == a.n # 0 /\ a.d = 0
FIsZero(a) == a.n = 0 /\ a.d # 0

FNeg(a) == IF FIsNaN(a) THEN a ELSE Float(0 - a.s, a.n, a.d)

FAdd(a, b) ==
    IF FIsNaN(a) \/ FIsNaN(b) THEN NaN
    ELSE IF FIsInf(a) /\ FIsInf(b) THEN (IF a.s = b.s THEN a ELSE NaN)
    ELSE IF FIsInf(a) THEN a
    ELSE IF FIsInf(b) THEN b
    ELSE LET num == a.s * a.n * b.d + b.s * b.n * a.d IN
         IF num = 0
         THEN Float(IF FIsZero(a) /\ FIsZero(b) /\ a.s = -1 /\ b.s = -1
                    THEN -1 ELSE 1, 0, 1)
         ELSE IF num < 0 THEN FNorm(-1, 0 - num, a.d * b.d)
         ELSE FNorm(1, num, a.d * b.d)

FSub(a, b) == FAdd(a, FNeg(b))

FMul(a, b) ==
    IF FIsNaN(a) \/ FIsNaN(b) THEN NaN
    ELSE FNorm(a.s * b.s, a.n * b.n, a.d * b.d)

FDiv(a, b) ==
    IF FIsNaN(a) \/ FIsNaN(b) THEN NaN
    ELSE FNorm(a.s * b.s, a.n * b.d, a.d * b.n)

\* a < b and a == b on float64 (false whenever a NaN is involved).
FLess(a, b) ==
    /\ ~FIsNaN(a) /\ ~FIsNaN(b)
    /\ ~FIsNaN(FSub(b, a))
    /\ FSub(b, a).s = 1 /\ FSub(b, a).n # 0

FEq(a, b) ==
    /\ ~FIsNaN(a) /\ ~FIsNaN(b)
    /\ \/ FIsZero(a) /\ FIsZero(b)
       \/ a = b

----------------------------------------------------------------------------
(* Interpreter: errors, the helpers and the operator switches. *)

NilError == [kind |-> "nil"]
RuntimeError(token, msg, args) ==
    [kind |-> "RuntimeError", Token |-> token, Msg |-> msg, Args |-> args]

\* The (error, value) pair a helper or an operator switch returns.
Ret(e, v) == [e |-> e, v |-> v]

isTruthy(right) ==
    IF right = Nil THEN FALSE
    ELSE IF right.t = "Boolean" THEN right.Vb
    ELSE TRUE

assertNumber(operator, v) ==
    IF v.t = "Number" THEN Ret(NilError, v.V)
    ELSE IF v.t = "float64" THEN Ret(NilError, v)
    ELSE Ret(RuntimeError(operator, "operand must be a number.", <<>>), Float(1, 0, 1))

assertString(v) ==
    IF v.t = "String" THEN Ret(NilError, GoString(v.Vs))
    ELSE IF v.t = "string" THEN Ret(NilError, v)
    ELSE Ret(RuntimeError(ZeroToken, "operand must be string", <<>>), GoString(<<>>))

\* left == right on interface{} values: same dynamic type and equal values.
isEqual(left, right) ==
    IF left.t # right.t THEN FALSE
    ELSE IF left.t = "float64" THEN FEq(left, right)
    ELSE left = right

\* The return after the operator switch of VisitBinary.
unknownBinary(operator) ==
    Ret(RuntimeError(operator, "unknown binary operation", <<>>), Nil)

\* A '+' whose number case, the right operand not a number, returns from
\* the method with neither an error nor a value.
binaryPlusSilent(operator, left, right) ==
    IF left.t = "string"
    THEN IF assertString(right).e # NilError
         THEN Ret(assertString(right).e, Nil)
         ELSE Ret(NilError, GoString(left.str \o assertString(right).v.str))
    ELSE IF left.t = "float64"
    THEN IF assertNumber(operator, right).e # NilError
         THEN Ret(NilError, Nil)
         ELSE Ret(NilError, FAdd(left, assertNumber(operator, right).v))
    ELSE Ret(RuntimeError(operator, "expected two strings or two numbers but got %v + %v",
                          <<left, right>>), Nil)

\* case TokenPlus of VisitBinary.
binaryPlus(operator, left, right) ==
    IF left.t = "string"
    THEN IF assertString(right).e # NilError
         THEN Ret(assertString(right).e, Nil)
         ELSE Ret(NilError, GoString(left.str \o assertString(right).v.str))
    ELSE IF left.t = "float64"
    THEN IF assertNumber(operator, right).e # NilError
         THEN unknownBinary(operator)
         ELSE Ret(NilError, FAdd(left, assertNumber(operator, right).v))
    ELSE Ret(RuntimeError(operator, "expected two strings or two numbers but got %v + %v",
                          <<left, right>>), Nil)

\* The operator switch of VisitBinary, applied to the two operand values.
binaryOp(operator, left, right) ==
    CASE operator.Type = "TokenPlus" -> binaryPlus(operator, left, right)
    [] operator.Type = "TokenMinus" ->
        IF assertNumber(operator, left).e # NilError
            THEN Ret(assertNumber(operator, left).e, Nil)
        ELSE IF assertNumber(operator, right).e # NilError
            THEN Ret(assertNumber(operator, right).e, Nil)
        ELSE Ret(NilError, FSub(assertNumber(operator, left).v, assertNumber(operator, right).v))
    [] operator.Type = "TokenSlash" ->
        IF assertNumber(operator, left).e # NilError
            THEN Ret(assertNumber(operator, left).e, Nil)
        ELSE IF assertNumber(operator, right).e # NilError
            THEN Ret(assertNumber(operator, right).e, Nil)
        ELSE Ret(NilError, FDiv(assertNumber(operator, left).v, assertNumber(operator, right).v))
    [] operator.Type = "TokenStar" ->
        IF assertNumber(operator, left).e # NilError
            THEN Ret(assertNumber(operator, left).e, Nil)
        ELSE IF assertNumber(operator, right).e # NilError
            THEN Ret(assertNumber(operator, right).e, Nil)
        ELSE Ret(NilError, FMul(assertNumber(operator, left).v, assertNumber(operator, right).v))
    [] operator.Type = "TokenGreaterEqual" ->
        IF assertNumber(operator, left).e # NilError
            THEN Ret(assertNumber(operator, left).e, Nil)
        ELSE IF assertNumber(operator, right).e # NilError
            THEN Ret(assertNumber(operator, right).e, Nil)
        ELSE Ret(NilError, GoBool(FLess(assertNumber(operator, right).v, assertNumber(operator, left).v) \/ FEq(assertNumber(operator, left).v, assertNumber(operator, right).v)))
    [] operator.Type = "TokenGreater" ->
        IF assertNumber(operator, left).e # NilError
            THEN Ret(assertNumber(operator, left).e, Nil)
        ELSE IF assertNumber(operator, right).e # NilError
            THEN Ret(assertNumber(operator, right).e, Nil)
        ELSE Ret(NilError, GoBool(FLess(assertNumber(operator, right).v, assertNumber(operator, left).v)))
    [] operator.Type = "TokenLessEqual" ->
        IF assertNumber(operator, left).e # NilError
            THEN Ret(assertNumber(operator, left).e, Nil)
        ELSE IF assertNumber(operator, right).e # NilError
            THEN Ret(assertNumber(operator, right).e, Nil)
        ELSE Ret(NilError, GoBool(FLess(assertNumber(operator, left).v, assertNumber(operator, right).v) \/ FEq(assertNumber(operator, left).v, assertNumber(operator, right).v)))
    [] operator.Type = "TokenLess" ->
        IF assertNumber(operator, left).e # NilError
            THEN Ret(assertNumber(operator, left).e, Nil)
        ELSE IF assertNumber(operator, right).e # NilError
            THEN Ret(assertNumber(operator, right).e, Nil)
        ELSE Ret(NilError, GoBool(FLess(assertNumber(operator, left).v, assertNumber(operator, right).v)))
    [] operator.Type = "TokenBangEqual" -> Ret(NilError, GoBool(~isEqual(left, right)))
    [] operator.Type = "TokenEqualEqual" -> Ret(NilError, GoBool(isEqual(left, right)))
    [] OTHER -> unknownBinary(operator)

\* The operator switch of VisitUnary, applied to the operand value.
unaryOp(operator, right) ==
    IF operator.Type = "TokenMinus"
    THEN IF assertNumber(operator, right).e # NilError
         THEN Ret(assertNumber(operator, right).e, Nil)
         ELSE Ret(NilError, FNeg(assertNumber(operator, right).v))
    ELSE IF operator.Type = "TokenBang"
    THEN Ret(NilError, GoBool(~isTruthy(right)))
    ELSE Ret(RuntimeError(operator, "unexpected unary operator", <<>>), Nil)

----------------------------------------------------------------------------
(* Inputs: what the scanner hands to the parser. A shape is a token        *)
(* without its line.                                                       *)

Shape(type, lexeme, literal) == [Type |-> type, Lexeme |-> lexeme, Literal |-> literal]

Num0 == Shape("TokenNumber", "0", Number(Float(1, 0, 1)))
Num1 == Shape("TokenNumber", "1", Number(Float(1, 1, 1)))
Num2 == Shape("TokenNumber", "2", Number(Float(1, 2, 1)))
Num3 == Shape("TokenNumber", "3", Number(Float(1, 3, 1)))
Num5 == Shape("TokenNumber", "5", Number(Float(1, 5, 1)))
StrA == Shape("TokenString", "\"a\"", GoString(<<"a">>))
StrB == Shape("TokenString", "\"b\"", GoString(<<"b">>))
Str1 == Shape("TokenString", "\"1\"", GoString(<<"1">>))
StrEmpty == Shape("TokenString", "\"\"", GoString(<<>>))
KwFalse == Shape("TokenFalse", "false", Nil)
KwTrue == Shape("TokenTrue", "true", Nil)
KwNil == Shape("TokenNil", "nil", Nil)
LParen == Shape("TokenLeftParen", "(", Nil)
RParen == Shape("TokenRightParen", ")", Nil)
Comma == Shape("TokenComma", ",", Nil)
Question == Shape("TokenQuestion", "?", Nil)
Colon == Shape("TokenColon", ":", Nil)
Minus == Shape("TokenMinus", "-", Nil)
Plus == Shape("TokenPlus", "+", Nil)
Star == Shape("TokenStar", "*", Nil)
Slash == Shape("TokenSlash", "/", Nil)
Bang == Shape("TokenBang", "!", Nil)
Less == Shape("TokenLess", "<", Nil)
EqualEqual == Shape("TokenEqualEqual", "==", Nil)
Semicolon == Shape("TokenSemicolon", ";", Nil)

\* The token shapes every short source is built from: an operand of each
\* runtime type, the brackets, and an operator of the rungs of the ladder.
Alphabet ==
    {Num1, StrA, KwFalse, KwNil, LParen, RParen, Comma, Question, Colon,
     Minus, Plus, Star, Less}

\* Longer programs: the examples of the language's documentation.
Examples ==
    { <<Num1, Plus, Num2, Star, Num3>>,
      <<LParen, Num1, Plus, Num2, RParen, Star, Num3>>,
      <<Num1, Minus, Num2, Minus, Num3>>,
      <<KwTrue, Question, Num1, Colon, KwFalse, Question, Num2, Colon, Num3>>,
      <<Num1, Comma, Num2, Comma, Num3>>,
      <<StrA, Plus, StrB>>,
      <<StrA, Plus, Num1>>,
      <<KwNil, Question, Num1, Colon, Num2>>,
      <<KwFalse, Question, LParen, Num1, Slash, Num0, RParen, Colon, Num5>>,
      <<LParen, Num2, Less, Num1, RParen, Question, Num1, Colon, Num2>>,
      <<Num0, Question, Num1, Colon, Num2>>,
      <<StrEmpty, Question, Num1, Colon, Num2>>,
      <<Num1, EqualEqual, Str1>>,
      <<LParen, Num1, Plus>>,
      <<Num1, Plus>>,
      <<Minus, Minus, Num1>>,
      <<Num1, Minus, KwNil, Minus, StrA>>,
      <<KwNil, Minus, KwNil, Star, Num1>>,
      <<Num1, Plus, Num2, Less, Num3, EqualEqual, KwTrue>>,
      <<Num1, Question, Num2, Comma, Num3, Colon, Num5, Comma, Num0>>,
      <<Bang, KwTrue>>,
      <<Num1, Semicolon>>,
      <<Num1, EqualEqual, Num1>>,
      <<Num1, Num2>> }

Inputs == UNION {[1..n -> Alphabet] : n \in 0..MaxLen} \cup Examples

\* One token per source line; the end marker on the line after the last.
MakeTokens(input) ==
    [i \in 1..Len(input) + 1 |->
        IF i <= Len(input)
        THEN Token(input[i].Type, input[i].Lexeme, input[i].Literal, i)
        ELSE Token("TokenEof", "", Nil, Len(input) + 1)]

----------------------------------------------------------------------------
(* Parser: the cursor over `tokens`. cur is a value of Parser.current.     *)

\* Go slices index from 0, TLA+ sequences from 1.
peek(cur) == tokens[cur + 1]

previous(cur) == tokens[cur]

isAtEnd(cur) == peek(cur).Type = "TokenEof"

check(cur, tokenType) ==
    IF isAtEnd(cur) THEN FALSE ELSE peek(cur).Type = tokenType

\* An advance that passes two tokens.
advanceSkipping(cur) == cur + 2

\* advance, as the cursor after it (it returns previous()).
advance(cur) == IF ~isAtEnd(cur) THEN cur + 1 ELSE cur

\* match: whether one of the types matched, and the cursor after it.
match(cur, tokenTypes) ==
    IF \E i \in 1..Len(tokenTypes) : check(cur, tokenTypes[i])
    THEN [ok |-> TRUE, current |-> advance(cur)]
    ELSE [ok |-> FALSE, current |-> cur]

\* Parser.error: the reporter after the report (the parseError sentinel it
\* returns carries nothing).
error(rep, token, msg) ==
    IF token.Type = "TokenEof"
    THEN Report(rep, token.Line, <<" at end">>, msg)
    ELSE Report(rep, token.Line, <<" at '", token.Lexeme, "'">>, msg)

----------------------------------------------------------------------------
(* The call stack. A frame holds the function, the point its body has      *)
(* reached and its locals; a step of a function ends in a call, a return   *)
(* or a panic.                                                             *)

Frame(fn) ==
    [fn |-> fn, at |-> "entry", expr |-> NilExpr, operator |-> ZeroToken,
     trueExpr |-> NilExpr, left |-> Nil, cond |-> Nil, path |-> <<>>]

Top == stack[Len(stack)]

Running(fn) ==
    /\ fatal = "none"
    /\ panicking = "none"
    /\ stack # <<>>
    /\ Top.fn = fn

\* What a step does: the default is to return `ret` and change nothing.
Step ==
    [kind |-> "return", me |-> Top, callee |-> Top, value |-> ret,
     current |-> current, reporter |-> reporter, panic |-> "none",
     stdout |-> stdout, result |-> result, expr |-> expr]

CallE(me, callee, cur) ==
    [Step EXCEPT !.kind = "call", !.me = me, !.callee = callee, !.current = cur]

ReturnE(value, cur) == [Step EXCEPT !.value = value, !.current = cur]

\* panic(parser.error(token, msg))
PanicE(token, msg) ==
    [Step EXCEPT !.kind = "panic", !.panic = "parseError",
                 !.reporter = error(reporter, token, msg)]

\* A panic of the Go runtime (a failed type assertion).
RuntimePanicE(cur) ==
    [Step EXCEPT !.kind = "panic", !.panic = "runtimeError", !.current = cur]

Visitors == {"VisitBinary", "VisitGrouping", "VisitLiteral", "VisitUnary", "VisitTernary"}

Apply(eff) ==
    /\ current' = eff.current
    /\ reporter' = eff.reporter
    /\ stdout' = eff.stdout
    /\ result' = eff.result
    /\ expr' = eff.expr
    /\ tokens' = tokens
    /\ scanner' = scanner
    /\ CASE eff.kind = "call" ->
              /\ ret' = ret
              /\ panicking' = panicking
              /\ IF Len(stack) >= MaxStack
                 THEN /\ fatal' = "stack overflow"
                      /\ stack' = stack
                      /\ visits' = visits
                 ELSE /\ fatal' = fatal
                      /\ stack' = Append([stack EXCEPT ![Len(stack)] = eff.me],
                                         eff.callee)
                      /\ visits' = IF eff.callee.fn \in Visitors
                                   THEN Append(visits, eff.callee.path)
                                   ELSE visits
         [] eff.kind = "return" ->
              /\ ret' = eff.value
              /\ stack' = SubSeq(stack, 1, Len(stack) - 1)
              /\ UNCHANGED <<panicking, fatal, visits>>
         [] eff.kind = "panic" ->
              /\ panicking' = eff.panic
              /\ UNCHANGED <<ret, stack, fatal, visits>>

----------------------------------------------------------------------------
(* Parser: the grammar rules, lowest to highest binding power. Each is     *)
(* the step of the rule whose frame f is on top of the stack.              *)

\* A binary rule that parses its right operand with the rule itself:
\* operand (op rule)?, which associates to the right.
binaryRuleRightAssociative(f, operand, tokenTypes) ==
    IF f.at = "entry"
    THEN CallE([f EXCEPT !.at = "left"], Frame(operand), current)
    ELSE LET expr1 == IF f.at = "left" THEN ret
                      ELSE Binary(f.expr, f.operator, ret)
             m == match(current, tokenTypes)
         IN IF m.ok
            THEN CallE([f EXCEPT !.at = "right", !.expr = expr1,
                                 !.operator = previous(m.current)],
                       Frame(f.fn), m.current)
            ELSE ReturnE(expr1, current)

\* A left-associative binary rule: operand (op operand)*.
binaryRule(f, operand, tokenTypes) ==
    IF f.at = "entry"
    THEN CallE([f EXCEPT !.at = "left"], Frame(operand), current)
    ELSE LET expr1 == IF f.at = "left" THEN ret
                      ELSE Binary(f.expr, f.operator, ret)
             m == match(current, tokenTypes)
         IN IF m.ok
            THEN CallE([f EXCEPT !.at = "right", !.expr = expr1,
                                 !.operator = previous(m.current)],
                       Frame(operand), m.current)
            ELSE ReturnE(expr1, current)

\* An expression rule that is left-recursive at a parenthesis: it calls
\* itself there before any token is consumed.
expressionBodyLeftRecursive(f) ==
    IF f.at = "entry"
    THEN CallE([f EXCEPT !.at = "ret"],
               Frame(IF check(current, "TokenLeftParen") THEN "expression" ELSE "comma"),
               current)
    ELSE ReturnE(ret, current)

expressionBody(f) ==
    IF f.at = "entry"
    THEN CallE([f EXCEPT !.at = "ret"], Frame("comma"), current)
    ELSE ReturnE(ret, current)

commaBody(f) == binaryRule(f, "ternary", <<"TokenComma">>)

\* A ternary rule whose branches are parsed one rung up, as equalities.
ternaryBodyBranchesAtEquality(f) ==
    CASE f.at = "entry" ->
            CallE([f EXCEPT !.at = "cond"], Frame("equality"), current)
      [] f.at = "cond" ->
            IF match(current, <<"TokenQuestion">>).ok
            THEN CallE([f EXCEPT !.at = "true", !.expr = ret], Frame("equality"),
                       match(current, <<"TokenQuestion">>).current)
            ELSE ReturnE(ret, current)
      [] f.at = "true" ->
            IF check(current, "TokenColon")
            THEN CallE([f EXCEPT !.at = "false", !.trueExpr = ret],
                       Frame("equality"), advance(current))
            ELSE PanicE(peek(current), "Expect colon.")
      [] f.at = "false" ->
            ReturnE(Ternary(f.expr, f.trueExpr, ret), current)

ternaryBody(f) ==
    CASE f.at = "entry" ->
            CallE([f EXCEPT !.at = "cond"], Frame("equality"), current)
      [] f.at = "cond" ->
            IF match(current, <<"TokenQuestion">>).ok
            THEN CallE([f EXCEPT !.at = "true", !.expr = ret], Frame("expression"),
                       match(current, <<"TokenQuestion">>).current)
            ELSE ReturnE(ret, current)
      [] f.at = "true" ->
            IF check(current, "TokenColon")
            THEN CallE([f EXCEPT !.at = "false", !.trueExpr = ret],
                       Frame("expression"), advance(current))
            ELSE PanicE(peek(current), "Expect colon.")
      [] f.at = "false" ->
            ReturnE(Ternary(f.expr, f.trueExpr, ret), current)

equalityBody(f) ==
    binaryRule(f, "comparison", <<"TokenEqualEqual", "TokenBangEqual">>)

comparisonBody(f) ==
    binaryRule(f, "addition",
               <<"TokenGreater", "TokenGreaterEqual", "TokenLess", "TokenLessEqual">>)

additionBody(f) == binaryRule(f, "multiplication", <<"TokenMinus", "TokenPlus">>)

multiplicationBody(f) == binaryRule(f, "unary", <<"TokenStar", "TokenSlash">>)

unaryBody(f) ==
    CASE f.at = "entry" ->
            IF match(current, <<"TokenBang", "TokenMinus">>).ok
            THEN CallE([f EXCEPT !.at = "right",
                                 !.operator = previous(advance(current))],
                       Frame("unary"), advance(current))
            ELSE CallE([f EXCEPT !.at = "primary"], Frame("primary"), current)
      [] f.at = "right" -> ReturnE(Unary(f.operator, ret), current)
      [] f.at = "primary" -> ReturnE(ret, current)

\* x.(T): a failed type assertion panics with a runtime error, which is
\* no parseError.
primaryBody(f) ==
    IF f.at = "entry"
    THEN CASE check(current, "TokenFalse") ->
                 ReturnE(Literal(Boolean(FALSE)), advance(current))
           [] check(current, "TokenTrue") ->
                 ReturnE(Literal(Boolean(TRUE)), advance(current))
           [] check(current, "TokenNil") ->
                 ReturnE(Literal(Nil), advance(current))
           [] check(current, "TokenNumber") ->
                 IF peek(current).Literal.t = "Number"
                 THEN ReturnE(Literal(peek(current).Literal), advance(current))
                 ELSE RuntimePanicE(advance(current))
           [] check(current, "TokenString") ->
                 IF peek(current).Literal.t = "string"
                 THEN ReturnE(Literal(String(peek(current).Literal.str)),
                              advance(current))
                 ELSE RuntimePanicE(advance(current))
           [] check(current, "TokenLeftParen") ->
                 CallE([f EXCEPT !.at = "group"], Frame("expression"),
                       advance(current))
           [] OTHER -> PanicE(peek(current), "Expect expression.")
    ELSE IF check(current, "TokenRightParen")
         THEN ReturnE(Grouping(ret), advance(current))
         ELSE PanicE(peek(current), "Expect ')' after expression.")

\* Parser.Parse, but for its deferred function.
ParseBody(f) ==
    IF f.at = "entry"
    THEN CallE([f EXCEPT !.at = "ret"], Frame("expression"), current)
    ELSE ReturnE([expr |-> ret, e |-> "nil"], current)

\* Frontend.Parse, from NewParser on: the error of Parser.Parse is dropped.
FrontendParseBody(f) ==
    IF f.at = "entry"
    THEN CallE([f EXCEPT !.at = "ret"], Frame("Parse"), 0)
    ELSE ReturnE(ret.expr, current)

expression == Running("expression") /\ Apply(expressionBody(Top))
comma == Running("comma") /\ Apply(commaBody(Top))
ternary == Running("ternary") /\ Apply(ternaryBody(Top))
equality == Running("equality") /\ Apply(equalityBody(Top))
comparison == Running("comparison") /\ Apply(comparisonBody(Top))
addition == Running("addition") /\ Apply(additionBody(Top))
multiplication == Running("multiplication") /\ Apply(multiplicationBody(Top))
unary == Running("unary") /\ Apply(unaryBody(Top))
primary == Running("primary") /\ Apply(primaryBody(Top))
Parse == Running("Parse") /\ Apply(ParseBody(Top))
FrontendParse == Running("FrontendParse") /\ Apply(FrontendParseBody(Top))

\* The deferred function of Parser.Parse, run by a panic: recover() stops
\* the panic whatever its value, and only a parseError sets the results.
\* Parse then returns to its caller with the named results.
ParseFrame == CHOOSE i \in DOMAIN stack : stack[i].fn = "Parse"

\* A deferred function that recovers and leaves the error result unset.
recoveredWithoutError(r) == [expr |-> NilExpr, e |-> "nil"]

\* The named results (expr, e) the deferred function leaves for the
\* recovered value r: neither was assigned before the panic.
recovered(r) ==
    IF r = "parseError"
    THEN [expr |-> NilExpr, e |-> "failed to parse"]
    ELSE [expr |-> NilExpr, e |-> "nil"]

ParseRecover ==
    /\ fatal = "none"
    /\ panicking # "none"
    /\ \E i \in DOMAIN stack : stack[i].fn = "Parse"
    /\ stack' = SubSeq(stack, 1, ParseFrame - 1)
    /\ ret' = recovered(panicking)
    /\ panicking' = "none"
    /\ UNCHANGED <<tokens, current, expr, reporter, stdout, visits, fatal, result,
                   scanner>>

----------------------------------------------------------------------------
(* Interpreter: the visitor methods. ret is the Go pair (error, value).    *)

\* Expr.Visit: each node variant calls the visitor method of its own kind.
VisitorOf(node) ==
    CASE node.kind = "Binary" -> "VisitBinary"
      [] node.kind = "Grouping" -> "VisitGrouping"
      [] node.kind = "Literal" -> "VisitLiteral"
      [] node.kind = "Unary" -> "VisitUnary"
      [] node.kind = "Ternary" -> "VisitTernary"

\* Interpreter.visit(node), for the node at `path` of the tree.
visit(node, path) == [Frame(VisitorOf(node)) EXCEPT !.expr = node, !.path = path]

\* A VisitBinary that goes on to the right operand whatever the left
\* operand returned.
VisitBinaryBodyIgnoringLeftError(f) ==
    CASE f.at = "entry" ->
            CallE([f EXCEPT !.at = "left"], visit(f.expr.Left, Append(f.path, 1)),
                  current)
      [] f.at = "left" ->
            CallE([f EXCEPT !.at = "right", !.left = ret.v],
                  visit(f.expr.Right, Append(f.path, 2)), current)
      [] f.at = "right" ->
            IF ret.e # NilError THEN ReturnE(Ret(ret.e, Nil), current)
            ELSE ReturnE(binaryOp(f.expr.Operator, f.left, ret.v), current)

VisitBinaryBody(f) ==
    CASE f.at = "entry" ->
            CallE([f EXCEPT !.at = "left"], visit(f.expr.Left, Append(f.path, 1)),
                  current)
      [] f.at = "left" ->
            IF ret.e # NilError THEN ReturnE(Ret(ret.e, Nil), current)
            ELSE CallE([f EXCEPT !.at = "right", !.left = ret.v],
                       visit(f.expr.Right, Append(f.path, 2)), current)
      [] f.at = "right" ->
            IF ret.e # NilError THEN ReturnE(Ret(ret.e, Nil), current)
            ELSE ReturnE(binaryOp(f.expr.Operator, f.left, ret.v), current)

VisitGroupingBody(f) ==
    IF f.at = "entry"
    THEN CallE([f EXCEPT !.at = "ret"], visit(f.expr.Expression, Append(f.path, 1)),
               current)
    ELSE ReturnE(ret, current)

VisitLiteralBody(f) ==
    IF f.expr.Value.t = "Number" THEN ReturnE(Ret(NilError, f.expr.Value.V), current)
    ELSE IF f.expr.Value.t = "String"
        THEN ReturnE(Ret(NilError, GoString(f.expr.Value.Vs)), current)
    ELSE IF f.expr.Value.t = "Boolean"
        THEN ReturnE(Ret(NilError, GoBool(f.expr.Value.Vb)), current)
    ELSE ReturnE(Ret(NilError, f.expr.Value), current)

\* VisitUnary passes the Unary node itself to visit, not its Right operand.
VisitUnaryBody(f) ==
    IF f.at = "entry"
    THEN CallE([f EXCEPT !.at = "right"], visit(f.expr, f.path), current)
    ELSE IF ret.e # NilError THEN ReturnE(Ret(ret.e, Nil), current)
    ELSE ReturnE(unaryOp(f.expr.Operator, ret.v), current)

VisitTernaryBody(f) ==
    CASE f.at = "entry" ->
            CallE([f EXCEPT !.at = "cond"], visit(f.expr.Cond, Append(f.path, 1)),
                  current)
      [] f.at = "cond" ->
            IF ret.e # NilError THEN ReturnE(Ret(ret.e, Nil), current)
            ELSE IF isTruthy(ret.v)
            THEN CallE([f EXCEPT !.at = "branch", !.cond = ret.v],
                       visit(f.expr.TrueBranch, Append(f.path, 2)), current)
            ELSE CallE([f EXCEPT !.at = "branch", !.cond = ret.v],
                       visit(f.expr.FalseBranch, Append(f.path, 3)), current)
      [] f.at = "branch" -> ReturnE(ret, current)

\* stringify: the text fmt.Println receives, as its format and argument.
stringify(loxValue) ==
    IF loxValue = Nil THEN <<"nil">>
    ELSE IF loxValue.t = "float64" THEN <<"%f", loxValue>>
    ELSE IF loxValue.t = "string" THEN loxValue.str
    ELSE IF loxValue.t = "bool" THEN (IF loxValue.b THEN <<"true">> ELSE <<"false">>)
    ELSE <<"_%v", loxValue>>

\* Interpreter.Interpret. Every error a visit returns is a RuntimeError,
\* so the panic(err) branch is never taken.
InterpretBody(f) ==
    IF f.at = "entry"
    THEN CallE([f EXCEPT !.at = "ret"], visit(f.expr, <<>>), current)
    ELSE IF ret.e # NilError
    THEN [ReturnE(Nil, current) EXCEPT
              !.reporter = ReporterRuntimeError(reporter, ret.e)]
    ELSE [ReturnE(Nil, current) EXCEPT !.stdout = Append(stdout, stringify(ret.v))]

VisitBinary == Running("VisitBinary") /\ Apply(VisitBinaryBody(Top))
VisitGrouping == Running("VisitGrouping") /\ Apply(VisitGroupingBody(Top))
VisitLiteral == Running("VisitLiteral") /\ Apply(VisitLiteralBody(Top))
VisitUnary == Running("VisitUnary") /\ Apply(VisitUnaryBody(Top))
VisitTernary == Running("VisitTernary") /\ Apply(VisitTernaryBody(Top))
Interpret == Running("Interpret") /\ Apply(InterpretBody(Top))

----------------------------------------------------------------------------
(* run(code), from the tokens on. *)

runBody(f) ==
    CASE f.at = "entry" ->
            CallE([f EXCEPT !.at = "parsed"], Frame("FrontendParse"), current)
      [] f.at = "parsed" ->
            IF reporter.HadError
            THEN [ReturnE(Nil, current) EXCEPT !.expr = ret,
                                               !.result = "HadGeneralError"]
            ELSE IF ret # NilExpr
            THEN [CallE([f EXCEPT !.at = "interpreted"],
                        [Frame("Interpret") EXCEPT !.expr = ret], current)
                  EXCEPT !.expr = ret]
            ELSE [ReturnE(Nil, current) EXCEPT !.expr = ret, !.result = "HadNoError"]
      [] f.at = "interpreted" ->
            IF reporter.HadRuntimeError
            THEN [ReturnE(Nil, current) EXCEPT !.result = "HadRuntimeError"]
            ELSE [ReturnE(Nil, current) EXCEPT !.result = "HadNoError"]

run == Running("run") /\ Apply(runBody(Top))

\* The scanner once ScanTokens has returned: run reads none of its fields.
ReturnedScanner ==
    [source |-> <<>>, start |-> 0, current |-> 0, line |-> 1, tokens |-> <<>>,
     pc |-> "returned", fault |-> "none"]

\* Scanner.ScanTokens has produced the tokens, with or without having
\* reported an unrecognized character on the first line.
Init ==
    /\ \E input \in Inputs : tokens = MakeTokens(input)
    /\ \E lexical \in BOOLEAN :
          reporter = IF lexical THEN Error(NewReporter, 1, "Unexpected character.")
                     ELSE NewReporter
    /\ current = 0
    /\ stack = <<Frame("run")>>
    /\ ret = Nil
    /\ panicking = "none"
    /\ expr = NilExpr
    /\ stdout = <<>>
    /\ visits = <<>>
    /\ fatal = "none"
    /\ result = "none"
    /\ scanner = ReturnedScanner

Next ==
    \/ run
    \/ FrontendParse
    \/ Parse
    \/ ParseRecover
    \/ expression
    \/ comma
    \/ ternary
    \/ equality
    \/ comparison
    \/ addition
    \/ multiplication
    \/ unary
    \/ primary
    \/ Interpret
    \/ VisitBinary
    \/ VisitGrouping
    \/ VisitLiteral
    \/ VisitUnary
    \/ VisitTernary

Spec == Init /\ [][Next]_vars

\* The steps of a run up to the call of the interpreter.
ParseNext ==
    \/ run
    \/ FrontendParse
    \/ Parse
    \/ ParseRecover
    \/ expression
    \/ comma
    \/ ternary
    \/ equality
    \/ comparison
    \/ addition
    \/ multiplication
    \/ unary
    \/ primary

\* The run of a source in which the scanner reported nothing.
FairInit == Init /\ reporter = NewReporter

\* One run is one goroutine executing its statements in turn: a step that
\* can be taken is taken.
FairSpec == FairInit /\ [][ParseNext]_vars /\ WF_vars(ParseNext)

----------------------------------------------------------------------------
(* Scanner. The source is a sequence of bytes (their values); a step of a  *)
(* scanner function takes and returns the pair s of the Scanner (sc) and   *)
(* the reporter it holds (rep). pc is the point the scanner has reached:   *)
(* the loop test of ScanTokens, the entry of scanToken, or a loop of       *)
(* scanToken, string, number or identifier.                                *)

NewScanner(source) ==
    [source |-> source, start |-> 0, current |-> 0, line |-> 1, tokens |-> <<>>,
     pc |-> "ScanTokens", fault |-> "none"]

scannerIsAtEnd(sc) == sc.current >= Len(sc.source)

\* The byte source[i] of Go (i counts from 0).
ByteAt(sc, i) == sc.source[i + 1]

\* advance: current++ and then the read of source[current-1], which is out
\* of range when the cursor was at the end.
scannerAdvance(sc) ==
    IF sc.current < Len(sc.source)
    THEN [sc EXCEPT !.current = @ + 1]
    ELSE [sc EXCEPT !.current = @ + 1, !.fault = "index out of range"]

addLiteralToken(sc, tokenType, literal) ==
    [sc EXCEPT !.tokens =
        Append(@, Token(tokenType, SubSeq(sc.source, sc.start + 1, sc.current),
                        literal, sc.line))]

addToken(sc, tokenType) == addLiteralToken(sc, tokenType, Nil)

scannerMatch(sc, expected) ==
    IF scannerIsAtEnd(sc) THEN [ok |-> FALSE, sc |-> sc]
    ELSE IF ByteAt(sc, sc.current) # expected THEN [ok |-> FALSE, sc |-> sc]
    ELSE [ok |-> TRUE, sc |-> [sc EXCEPT !.current = @ + 1]]

scannerPeek(sc) == IF scannerIsAtEnd(sc) THEN 0 ELSE ByteAt(sc, sc.current)

peekNext(sc) ==
    IF sc.current + 1 >= Len(sc.source) THEN 0 ELSE ByteAt(sc, sc.current + 1)

isDigit(c) == c >= 48 /\ c <= 57                                  \* '0'..'9'

isAlpha(c) == (c >= 97 /\ c <= 122) \/ (c >= 65 /\ c <= 90) \/ c = 95

isAlphaNumeric(c) == isAlpha(c) \/ isDigit(c)

keywords ==
    { [text |-> <<97, 110, 100>>, type |-> "TokenAnd"],
      [text |-> <<99, 108, 97, 115, 115>>, type |-> "TokenClass"],
      [text |-> <<101, 108, 115, 101>>, type |-> "TokenElse"],
      [text |-> <<102, 97, 108, 115, 101>>, type |-> "TokenFalse"],
      [text |-> <<102, 111, 114>>, type |-> "TokenFor"],
      [text |-> <<102, 117, 110>>, type |-> "TokenFun"],
      [text |-> <<105, 102>>, type |-> "TokenIf"],
      [text |-> <<110, 105, 108>>, type |-> "TokenNil"],
      [text |-> <<111, 114>>, type |-> "TokenOr"],
      [text |-> <<112, 114, 105, 110, 116>>, type |-> "TokenPrint"],
      [text |-> <<114, 101, 116, 117, 114, 110>>, type |-> "TokenReturn"],
      [text |-> <<115, 117, 112, 101, 114>>, type |-> "TokenSuper"],
      [text |-> <<116, 104, 105, 115>>, type |-> "TokenThis"],
      [text |-> <<116, 114, 117, 101>>, type |-> "TokenTrue"],
      [text |-> <<118, 97, 114>>, type |-> "TokenVar"],
      [text |-> <<119, 104, 105, 108, 101>>, type |-> "TokenWhile"] }

\* The scanner function that was running returns to the loop of ScanTokens.
Returning(sc) == [sc EXCEPT !.pc = "ScanTokens"]

\* The longest run of decimal digits a float64 can hold: the largest
\* float64 is below 10^309.
MaxFloat64Digits == 309

RECURSIVE DigitsValue(_)
DigitsValue(ds) ==
    IF ds = <<>> THEN 0
    ELSE 10 * DigitsValue(SubSeq(ds, 1, Len(ds) - 1)) + (ds[Len(ds)] - 48)

\* strconv.ParseFloat(text, 64) of digits with an optional '.' and digits:
\* the value as a fraction, or the range error of an integer part of more
\* than MaxFloat64Digits digits (the result is then an infinity). A part of
\* exactly MaxFloat64Digits digits is taken to be in range.
ParseFloat(text) ==
    LET dots == {i \in DOMAIN text : text[i] = 46}
        dot == IF dots = {} THEN Len(text) + 1 ELSE CHOOSE i \in dots : TRUE
        int == SubSeq(text, 1, dot - 1)
        frac == SubSeq(text, dot + 1, Len(text))
        zeros == {i \in DOMAIN int : \A j \in 1..i : int[j] = 48}
        one == <<49>> \o [i \in 1..Len(frac) |-> 48]
    IN IF Len(int) - Cardinality(zeros) > MaxFloat64Digits
       THEN [err |-> "value out of range", f |-> Float(1, 1, 0)]
       ELSE [err |-> "nil",
             f |-> FNorm(1, DigitsValue(int \o frac), DigitsValue(one))]

\* A default case that gives up on an unrecognized byte: it reports it and
\* moves the cursor to the end of the source.
scanTokenDefaultGivingUp(s, c) ==
    IF isDigit(c) THEN [s EXCEPT !.sc.pc = "number"]
    ELSE IF isAlpha(c) THEN [s EXCEPT !.sc.pc = "identifier"]
    ELSE [sc |-> Returning([s.sc EXCEPT !.current = Len(s.sc.source)]),
          rep |-> Error(s.rep, s.sc.line, "Unexpected character.")]

\* The default case of the switch of scanToken, c the byte just read.
scanTokenDefault(s, c) ==
    IF isDigit(c) THEN [s EXCEPT !.sc.pc = "number"]
    ELSE IF isAlpha(c) THEN [s EXCEPT !.sc.pc = "identifier"]
    ELSE [sc |-> Returning(s.sc),
          rep |-> Error(s.rep, s.sc.line, "Unexpected character.")]

\* scanToken: the switch on the byte advance returns, and the loop of the
\* '//' case.
scanTokenBody(s) ==
    IF s.sc.pc = "comment"
    THEN IF scannerPeek(s.sc) # 10 /\ ~scannerIsAtEnd(s.sc)
         THEN [s EXCEPT !.sc = scannerAdvance(s.sc)]
         ELSE [s EXCEPT !.sc = Returning(s.sc)]
    ELSE
    LET a == scannerAdvance(s.sc)
        c == ByteAt(s.sc, s.sc.current)
        m == scannerMatch(a, 61)
        one(tokenType) == [s EXCEPT !.sc = Returning(addToken(a, tokenType))]
        two(matched, single) ==
            IF m.ok THEN [s EXCEPT !.sc = Returning(addToken(m.sc, matched))]
            ELSE one(single)
    IN IF a.fault # "none" THEN [s EXCEPT !.sc = a]
       ELSE CASE c = 40 -> one("TokenLeftParen")                          \* (
              [] c = 41 -> one("TokenRightParen")                         \* )
              [] c = 123 -> one("TokenLeftBrace")                         \* {
              [] c = 125 -> one("TokenRightBrace")                        \* }
              [] c = 44 -> one("TokenComma")                              \* ,
              [] c = 46 -> one("TokenDot")                                \* .
              [] c = 45 -> one("TokenMinus")                              \* -
              [] c = 43 -> one("TokenPlus")                               \* +
              [] c = 59 -> one("TokenSemicolon")                          \* ;
              [] c = 42 -> one("TokenStar")                               \* *
              [] c = 63 -> one("TokenQuestion")                           \* ?
              [] c = 58 -> one("TokenColon")                              \* :
              [] c = 33 -> two("TokenBangEqual", "TokenBang")             \* !
              [] c = 61 -> two("TokenEqualEqual", "TokenEqual")           \* =
              [] c = 60 -> two("TokenLessEqual", "TokenLess")             \* <
              [] c = 62 -> two("TokenGreaterEqual", "TokenGreater")       \* >
              [] c = 47 ->                                                \* /
                    IF scannerMatch(a, 47).ok
                    THEN [s EXCEPT !.sc = [scannerMatch(a, 47).sc EXCEPT
                                               !.pc = "comment"]]
                    ELSE one("TokenSlash")
              [] c \in {32, 9, 13} -> [s EXCEPT !.sc = Returning(a)]      \* ' ' \t \r
              [] c = 10 -> [s EXCEPT !.sc = Returning([a EXCEPT !.line = @ + 1])]
              [] c = 34 -> [s EXCEPT !.sc = [a EXCEPT !.pc = "string"]]   \* "
              [] OTHER -> scanTokenDefault([s EXCEPT !.sc = a], c)

\* Scanner.string, an iteration of its loop or what follows the loop.
stringBody(s) ==
    IF scannerPeek(s.sc) # 34 /\ ~scannerIsAtEnd(s.sc)
    THEN [s EXCEPT !.sc = scannerAdvance(
                      IF scannerPeek(s.sc) = 10 THEN [s.sc EXCEPT !.line = @ + 1]
                      ELSE s.sc)]
    ELSE IF scannerIsAtEnd(s.sc)
    THEN [sc |-> Returning(s.sc),
          rep |-> Error(s.rep, s.sc.line, "Unterminated string.")]
    ELSE LET a == scannerAdvance(s.sc)
             value == SubSeq(a.source, a.start + 2, a.current - 1)
         IN [s EXCEPT !.sc = Returning(addLiteralToken(a, "TokenString",
                                                       GoString(value)))]

\* Scanner.number, an iteration of one of its loops or what follows them;
\* a failed ParseFloat is a panic.
numberBody(s) ==
    LET value == SubSeq(s.sc.source, s.sc.start + 1, s.sc.current)
        done ==
            IF ParseFloat(value).err # "nil"
            THEN [s EXCEPT !.sc.fault = "panic: strconv.ParseFloat: value out of range"]
            ELSE [s EXCEPT !.sc = Returning(addLiteralToken(
                                     s.sc, "TokenNumber", Number(ParseFloat(value).f)))]
    IN IF isDigit(scannerPeek(s.sc)) THEN [s EXCEPT !.sc = scannerAdvance(s.sc)]
       ELSE IF /\ s.sc.pc = "number"
               /\ scannerPeek(s.sc) = 46
               /\ isDigit(peekNext(s.sc))
       THEN [s EXCEPT !.sc = [scannerAdvance(s.sc) EXCEPT !.pc = "fraction"]]
       ELSE done

\* Scanner.identifier, an iteration of its loop or what follows the loop.
identifierBody(s) ==
    LET text == SubSeq(s.sc.source, s.sc.start + 1, s.sc.current)
        found == {k \in keywords : k.text = text}
        tokenType == IF found = {} THEN "TokenIdentifier"
                     ELSE (CHOOSE k \in found : TRUE).type
    IN IF isAlphaNumeric(scannerPeek(s.sc))
       THEN [s EXCEPT !.sc = scannerAdvance(s.sc)]
       ELSE [s EXCEPT !.sc = Returning(addToken(s.sc, tokenType))]

\* ScanTokens: the test of its loop, and either the call of scanToken or
\* the end-of-file token and the return.
ScanTokensBody(s) ==
    IF ~scannerIsAtEnd(s.sc)
    THEN [s EXCEPT !.sc = [s.sc EXCEPT !.start = s.sc.current, !.pc = "scanToken"]]
    ELSE [s EXCEPT !.sc = [s.sc EXCEPT
              !.tokens = Append(@, Token("TokenEof", <<>>, Nil, s.sc.line)),
              !.pc = "returned"]]

\* The step of the scanner function that is running.
ScannerStep(s) ==
    CASE s.sc.pc = "ScanTokens" -> ScanTokensBody(s)
      [] s.sc.pc \in {"scanToken", "comment"} -> scanTokenBody(s)
      [] s.sc.pc = "string" -> stringBody(s)
      [] s.sc.pc \in {"number", "fraction"} -> numberBody(s)
      [] s.sc.pc = "identifier" -> identifierBody(s)

\* A scanner function has run a step to s; Frontend.Parse receives the
\* tokens ScanTokens returns.
Scanning(s) ==
    /\ scanner' = s.sc
    /\ reporter' = s.rep
    /\ tokens' = IF s.sc.pc = "returned" THEN s.sc.tokens ELSE tokens
    /\ UNCHANGED <<current, stack, ret, panicking, expr, stdout, visits, fatal, result>>

ScannerState == [sc |-> scanner, rep |-> reporter]

\* The scanner is at one of the points pcs, and nothing has ended the process.
ScannerAt(pcs) == scanner.fault = "none" /\ scanner.pc \in pcs

ScanTokens == ScannerAt({"ScanTokens"}) /\ Scanning(ScanTokensBody(ScannerState))
scanToken ==
    ScannerAt({"scanToken", "comment"}) /\ Scanning(scanTokenBody(ScannerState))
string == ScannerAt({"string"}) /\ Scanning(stringBody(ScannerState))
number == ScannerAt({"number", "fraction"}) /\ Scanning(numberBody(ScannerState))
identifier == ScannerAt({"identifier"}) /\ Scanning(identifierBody(ScannerState))

\* The sources of up to MaxSrc bytes over a byte of each kind the scanner
\* tells apart:  1  .  "  /  newline  @  =  a  space
MaxSrc == 4

ByteAlphabet == {49, 46, 34, 47, 10, 64, 61, 97, 32}

SourceExamples ==
    { [i \in 1..(MaxFloat64Digits + 1) |-> 49],                \* 310 digits
      <<40, 49, 43, 50, 41, 42, 51>>,                          \* (1+2)*3
      <<49, 50, 46, 53, 48>>,                                  \* 12.50
      <<110, 105, 108, 32, 110, 105, 108, 115>>,               \* nil nils
      <<34, 97, 10, 98, 34, 32, 49>>,                          \* "a\nb" 1
      <<47, 47, 32, 99, 10, 49, 47, 50>>,                      \* // c\n1/2
      <<33, 61, 60, 61, 62, 61, 33, 60, 62>>,                  \* !=<=>=!<>
      <<123, 125, 44, 46, 45, 59, 63, 58, 9, 13, 35>>,         \* {},.-;?:\t\r#
      <<102, 97, 108, 115, 101, 63, 95, 120, 49, 58, 48>> }    \* false?_x1:0

Sources == UNION {[1..n -> ByteAlphabet] : n \in 0..MaxSrc} \cup SourceExamples

\* Frontend.Parse has made the scanner and the reporter is new.
ScanInit ==
    /\ \E source \in Sources : scanner = NewScanner(source)
    /\ reporter = NewReporter
    /\ tokens = <<>>
    /\ current = 0
    /\ stack = <<>>
    /\ ret = Nil
    /\ panicking = "none"
    /\ expr = NilExpr
    /\ stdout = <<>>
    /\ visits = <<>>
    /\ fatal = "none"
    /\ result = "none"

ScanNext ==
    \/ ScanTokens
    \/ scanToken
    \/ string
    \/ number
    \/ identifier

ScanSpec == ScanInit /\ [][ScanNext]_vars

----------------------------------------------------------------------------
(* Properties.                                                             *)

\* run has returned.
Done == stack = <<>>

\* The diagnostics of the parser: Parser.error reports through Report with
\* a location, the scanner through Error without one.
IsSyntaxDiagnostic(r) == r.kind = "Error" /\ r.where # <<>>

SyntaxDiagnostics == SelectSeq(reporter.stderr, IsSyntaxDiagnostic)

RuntimeDiagnostics ==
    SelectSeq(reporter.stderr, LAMBDA r : r.kind = "RuntimeError")

\* Parser.Parse has just returned to Frontend.Parse.
ParseReturned == stack # <<>> /\ Top.fn = "FrontendParse" /\ Top.at = "ret"

\* Frontend.Parse has just returned to run.
FrontendParseReturned == stack # <<>> /\ Top.fn = "run" /\ Top.at = "parsed"

InterpreterFns == Visitors \cup {"Interpret"}

\* C1: once the parser has hit a syntax error, that parse has reported
\* exactly one diagnostic and HadError is set; Parser.Parse returns a nil
\* tree with a non-nil error, and run ends with HadGeneralError without
\* ever calling Interpret (nothing is visited, nothing is printed).
C1_SyntaxErrorAbandonsParse ==
    SyntaxDiagnostics # <<>> =>
        /\ Len(SyntaxDiagnostics) = 1
        /\ reporter.HadError
        /\ ParseReturned => ret = [expr |-> NilExpr, e |-> "failed to parse"]
        /\ FrontendParseReturned => ret = NilExpr
        /\ \A i \in DOMAIN stack : stack[i].fn \notin InterpreterFns
        /\ visits = <<>> /\ stdout = <<>> /\ ~reporter.HadRuntimeError
        /\ Done => result = "HadGeneralError" /\ expr = NilExpr

\* C1 witness: a run has ended on a failed consume, as on "( 1".
C1_Witness ==
    /\ Done
    /\ result = "HadGeneralError"
    /\ Len(SyntaxDiagnostics) = 1
    /\ SyntaxDiagnostics[1].message = "Expect ')' after expression."
    /\ Len(reporter.stderr) = 1

\* The tokens before the end-of-file token.
Source == SubSeq(tokens, 1, Len(tokens) - 1)

PrefixOperators == {"TokenBang", "TokenMinus"}

InfixOperators ==
    {"TokenComma", "TokenEqualEqual", "TokenBangEqual", "TokenGreater",
     "TokenGreaterEqual", "TokenLess", "TokenLessEqual", "TokenMinus",
     "TokenPlus", "TokenStar", "TokenSlash"}

Operands == {"TokenFalse", "TokenTrue", "TokenNil", "TokenNumber", "TokenString"}

\* The language of the grammar rule `comma`, recognized left to right:
\* operands (under prefix operators) alternate with infix operators, and
\* '(' ... ')' and '?' ... ':' nest as two kinds of brackets. `open` holds
\* the brackets still open before token i.
RECURSIVE Derives(_, _, _, _)
Derives(toks, i, want, open) ==
    IF i > Len(toks) THEN want = "operator" /\ open = <<>>
    ELSE LET type == toks[i].Type
             closes(b) == open # <<>> /\ open[Len(open)] = b
             rest == SubSeq(open, 1, Len(open) - 1)
         IN IF want = "operand"
            THEN CASE type \in PrefixOperators -> Derives(toks, i + 1, "operand", open)
                   [] type = "TokenLeftParen" ->
                         Derives(toks, i + 1, "operand", Append(open, "("))
                   [] type \in Operands -> Derives(toks, i + 1, "operator", open)
                   [] OTHER -> FALSE
            ELSE CASE type \in InfixOperators -> Derives(toks, i + 1, "operand", open)
                   [] type = "TokenQuestion" ->
                         Derives(toks, i + 1, "operand", Append(open, "?"))
                   [] type = "TokenColon" ->
                         closes("?") /\ Derives(toks, i + 1, "operand", rest)
                   [] type = "TokenRightParen" ->
                         closes("(") /\ Derives(toks, i + 1, "operator", rest)
                   [] OTHER -> FALSE

\* The whole token sequence is one expression of the grammar.
IsExpression(toks) == Derives(toks, 1, "operand", <<>>)

\* C2: no panic leaves Parser.Parse, and for every token sequence whose
\* tokens before the end of file are not, in their entirety, one expression
\* of the rule `comma`, Frontend.Parse reports a syntax error and returns
\* no tree.
C2_NonExpressionIsSyntaxError ==
    /\ panicking # "none" => \E i \in DOMAIN stack : stack[i].fn = "Parse"
    /\ (FrontendParseReturned /\ ~IsExpression(Source)) =>
            (SyntaxDiagnostics # <<>> /\ reporter.HadError /\ ret = NilExpr)

\* The recognizer and the parser agree on the sources the parser reads to
\* the end.
RecognizerAgreesWithParser ==
    FrontendParseReturned =>
        (IsExpression(Source) <=> (ret # NilExpr /\ isAtEnd(current)))

\* The body of function fn is about to run from point `at`.
About(fn, at) == Running(fn) /\ Top.at = at

IsPrefix(p, q) == Len(p) <= Len(q) /\ SubSeq(q, 1, Len(p)) = p

Visited(p) == \E k \in DOMAIN visits : visits[k] = p

VisitedBelow(p) == \E k \in DOMAIN visits : IsPrefix(p, visits[k])

\* The source parsed without any diagnostic into a tree run has evaluated.
Evaluated == Done /\ ~reporter.HadError /\ expr # NilExpr

\* C3: evaluating a Unary '-' node evaluates its operand (the call VisitUnary
\* makes is a visit of unary.Right, and evaluation does not crash): a number
\* operand n yields -n, any other operand a RuntimeError at the operator
\* token, so "-1" prints -1 and "-nil" reports line 1.
C3_UnaryMinusNegatesOperand ==
    /\ fatal = "none"
    /\ \A i \in 1..(Len(stack) - 1) :
          stack[i].fn = "VisitUnary" =>
              /\ stack[i + 1].expr = stack[i].expr.Right
              /\ stack[i + 1].path = Append(stack[i].path, 1)
    /\ ( /\ Evaluated
         /\ expr.kind = "Unary"
         /\ expr.Operator.Type = "TokenMinus"
         /\ expr.Right.kind = "Literal" ) =>
            IF expr.Right.Value.t = "Number"
            THEN stdout = <<stringify(FNeg(expr.Right.Value.V))>>
            ELSE /\ stdout = <<>>
                 /\ RuntimeDiagnostics =
                        <<[kind |-> "RuntimeError", line |-> expr.Operator.Line,
                           where |-> <<>>, message |-> "operand must be a number."]>>

\* C4: a Binary node whose operator is the comma, its two operands evaluated
\* without error, yields the value of the right operand and no error.
C4_CommaYieldsRight ==
    [][ ( /\ About("VisitBinary", "right")
          /\ Top.expr.Operator.Type = "TokenComma"
          /\ ret.e = NilError ) =>
            ret' = Ret(NilError, ret.v) ]_vars

\* Truthiness as the language defines it: nil and the Boolean false are
\* falsy, every other value is truthy.
Truthy(v) == v # Nil /\ v # GoBool(FALSE)

\* C5: the value of a ternary's condition selects the false branch exactly
\* when it is nil or the Boolean false (as produced by the literal 'false'
\* and by comparisons), and the true branch for every other value.
C5_FalseAndNilAreFalsy ==
    [][ (About("VisitTernary", "cond") /\ ret.e = NilError) =>
            /\ Len(stack') = Len(stack) + 1
            /\ Top'.expr = IF Truthy(ret.v) THEN Top.expr.TrueBranch
                            ELSE Top.expr.FalseBranch ]_vars

FalseOrDivideByZero ==
    <<KwFalse, Question, LParen, Num1, Slash, Num0, RParen, Colon, Num5>>

\* C6: a ternary visits its condition first and then exactly one branch,
\* the true branch when the condition is truthy and the false branch
\* otherwise; nothing of the other branch is ever visited, and
\* 'false ? (1/0) : 5' yields 5.
C6_TernaryEvaluatesOneBranch ==
    /\ \A i \in DOMAIN stack :
          (stack[i].fn = "VisitTernary" /\ stack[i].at # "entry") =>
              /\ Visited(Append(stack[i].path, 1))
              /\ stack[i].at = "cond" =>
                    /\ ~VisitedBelow(Append(stack[i].path, 2))
                    /\ ~VisitedBelow(Append(stack[i].path, 3))
              /\ stack[i].at = "branch" =>
                    IF Truthy(stack[i].cond)
                    THEN /\ Visited(Append(stack[i].path, 2))
                         /\ ~VisitedBelow(Append(stack[i].path, 3))
                    ELSE /\ Visited(Append(stack[i].path, 3))
                         /\ ~VisitedBelow(Append(stack[i].path, 2))
    /\ (Evaluated /\ tokens = MakeTokens(FalseOrDivideByZero)) =>
            stdout = <<stringify(Float(1, 5, 1))>>

\* C7: '+' applied to two evaluated operands succeeds only with the sum of
\* two numbers or the concatenation of two strings; a number with a
\* non-number, or a string with a non-string, gives a RuntimeError and
\* no value, and a left operand that is neither gives the
\* 'expected two strings or two numbers' RuntimeError.
C7_PlusNeverSucceedsWrongly ==
    [][ ( /\ About("VisitBinary", "right")
          /\ Top.expr.Operator.Type = "TokenPlus"
          /\ ret.e = NilError ) =>
            /\ stack' = SubSeq(stack, 1, Len(stack) - 1)
            /\ CASE Top.left.t = "float64" /\ ret.v.t = "float64" ->
                        ret' = Ret(NilError, FAdd(Top.left, ret.v))
                  [] Top.left.t = "string" /\ ret.v.t = "string" ->
                        ret' = Ret(NilError, GoString(Top.left.str \o ret.v.str))
                  [] Top.left.t = "float64" /\ ret.v.t # "float64" ->
                        /\ ret'.e.kind = "RuntimeError"
                        /\ ret'.e.Token = Top.expr.Operator
                        /\ ret'.v = Nil
                  [] Top.left.t = "string" /\ ret.v.t # "string" ->
                        /\ ret'.e.kind = "RuntimeError"
                        /\ ret'.v = Nil
                  [] OTHER ->
                        /\ ret'.e.kind = "RuntimeError"
                        /\ ret'.e.Token = Top.expr.Operator
                        /\ ret'.e.Msg =
                              "expected two strings or two numbers but got %v + %v"
                        /\ ret'.v = Nil ]_vars

\* C7 witness: a number plus a non-number has been evaluated, and the run
\* ended with a RuntimeError at the '+' and nothing printed.
C7_Witness ==
    /\ Evaluated
    /\ expr.kind = "Binary" /\ expr.Operator.Type = "TokenPlus"
    /\ expr.Left.kind = "Literal" /\ expr.Left.Value.t = "Number"
    /\ expr.Right.kind = "Literal" /\ expr.Right.Value.t # "Number"
    /\ Len(RuntimeDiagnostics) = 1
    /\ RuntimeDiagnostics[1].line = expr.Operator.Line
    /\ stdout = <<>>

OperatorTypes == PrefixOperators \cup InfixOperators

\* C8: every RuntimeError evaluation returns carries the operator token of
\* the failing operation, so the reported line is that token's line (1 or
\* more); the report sets HadRuntimeError, leaves HadError unset, and
\* nothing is printed.
C8_RuntimeErrorCarriesOperatorToken ==
    /\ ("v" \in DOMAIN ret /\ ret.e # NilError) =>
            /\ ret.e.Token.Line >= 1
            /\ ret.e.Token.Type \in OperatorTypes
            /\ ret.e.Token \in {tokens[i] : i \in DOMAIN tokens}
    /\ \A k \in DOMAIN RuntimeDiagnostics :
            /\ RuntimeDiagnostics[k].line >= 1
            /\ \E i \in DOMAIN tokens :
                  /\ tokens[i].Line = RuntimeDiagnostics[k].line
                  /\ tokens[i].Type \in OperatorTypes
    /\ RuntimeDiagnostics # <<>> =>
            /\ reporter.HadRuntimeError
            /\ ~reporter.HadError
            /\ stdout = <<>>

Arithmetic ==
    {"TokenMinus", "TokenSlash", "TokenStar", "TokenGreaterEqual", "TokenGreater",
     "TokenLessEqual", "TokenLess"}

\* While a Binary node evaluates its left operand, nothing of its right
\* operand has been visited.
LeftBeforeRight ==
    \A i \in DOMAIN stack :
        (stack[i].fn = "VisitBinary" /\ stack[i].at \in {"entry", "left"}) =>
            ~VisitedBelow(Append(stack[i].path, 2))

\* C9: a Binary node visits its left operand to completion before its
\* right operand; an error of the left operand is returned as it is and
\* the right operand is never visited; the operator's type checks come
\* only after both operands are evaluated (an error of the right operand
\* is returned whatever the left value is), and a left value of the wrong
\* type fails the check whatever the right value is.
C9_LeftToRightEvaluation ==
    /\ []LeftBeforeRight
    /\ [][ /\ (About("VisitBinary", "left") /\ ret.e # NilError) =>
                /\ ret' = Ret(ret.e, Nil)
                /\ stack' = SubSeq(stack, 1, Len(stack) - 1)
                /\ visits' = visits
           /\ (About("VisitBinary", "left") /\ ret.e = NilError) =>
                /\ Len(stack') = Len(stack) + 1
                /\ Top'.expr = Top.expr.Right
                /\ visits' = Append(visits, Append(Top.path, 2))
           /\ (About("VisitBinary", "right") /\ ret.e # NilError) =>
                ret' = Ret(ret.e, Nil)
           /\ ( /\ About("VisitBinary", "right")
                /\ ret.e = NilError
                /\ Top.expr.Operator.Type \in Arithmetic
                /\ Top.left.t # "float64" ) =>
                ret' = Ret(RuntimeError(Top.expr.Operator,
                                        "operand must be a number.", <<>>), Nil)
         ]_vars

\* C9 witness: the left operand of the root Binary node failed, the run
\* reported that error, and the right operand was never visited.
C9_Witness ==
    /\ Evaluated
    /\ expr.kind = "Binary"
    /\ Visited(<<1, 2>>)
    /\ ~Visited(<<2>>)
    /\ Len(RuntimeDiagnostics) = 1
    /\ RuntimeDiagnostics[1].line = expr.Left.Operator.Line

\* The rung of the precedence ladder a node belongs to, lowest binding
\* power first.
Level(node) ==
    CASE node.kind = "Binary" /\ node.Operator.Type = "TokenComma" -> 1
      [] node.kind = "Ternary" -> 2
      [] node.kind = "Binary"
           /\ node.Operator.Type \in {"TokenEqualEqual", "TokenBangEqual"} -> 3
      [] node.kind = "Binary"
           /\ node.Operator.Type \in {"TokenGreater", "TokenGreaterEqual",
                                       "TokenLess", "TokenLessEqual"} -> 4
      [] node.kind = "Binary"
           /\ node.Operator.Type \in {"TokenMinus", "TokenPlus"} -> 5
      [] node.kind = "Binary"
           /\ node.Operator.Type \in {"TokenStar", "TokenSlash"} -> 6
      [] node.kind = "Unary" -> 7
      [] OTHER -> 8

\* Every node of the tree respects the ladder: the left operand of a
\* binary node binds at least as tightly as the node and its right operand
\* strictly tighter (left associativity), the operand of a unary node is a
\* unary or a primary, the condition of a ternary an equality or tighter;
\* the branches of a ternary and the inside of a grouping are free.
RECURSIVE Layered(_)
Layered(node) ==
    CASE node.kind = "Literal" -> TRUE
      [] node.kind = "Grouping" -> Layered(node.Expression)
      [] node.kind = "Unary" ->
            /\ node.Operator.Type \in PrefixOperators
            /\ Level(node.Right) >= 7
            /\ Layered(node.Right)
      [] node.kind = "Binary" ->
            /\ node.Operator.Type \in InfixOperators
            /\ Level(node.Left) >= Level(node)
            /\ Level(node.Right) > Level(node)
            /\ Layered(node.Left) /\ Layered(node.Right)
      [] node.kind = "Ternary" ->
            /\ Level(node.Cond) >= 3
            /\ Layered(node.Cond) /\ Layered(node.TrueBranch)
            /\ Layered(node.FalseBranch)
      [] OTHER -> FALSE

\* What a token contributes to a tree: an operand its literal value, an
\* operator the token, a bracket its lexeme.
Item(k, tok, val) == [k |-> k, tok |-> tok, val |-> val]

ItemOf(token) ==
    CASE token.Type = "TokenFalse" -> Item("literal", ZeroToken, Boolean(FALSE))
      [] token.Type = "TokenTrue" -> Item("literal", ZeroToken, Boolean(TRUE))
      [] token.Type = "TokenNil" -> Item("literal", ZeroToken, Nil)
      [] token.Type = "TokenNumber" -> Item("literal", ZeroToken, token.Literal)
      [] token.Type = "TokenString" ->
            Item("literal", ZeroToken, String(token.Literal.str))
      [] token.Type \in OperatorTypes -> Item("operator", token, Nil)
      [] OTHER -> Item(token.Lexeme, ZeroToken, Nil)

\* The tokens of a tree, in source order.
RECURSIVE Flatten(_)
Flatten(node) ==
    CASE node.kind = "Literal" -> <<Item("literal", ZeroToken, node.Value)>>
      [] node.kind = "Grouping" ->
            <<Item("(", ZeroToken, Nil)>> \o Flatten(node.Expression)
                \o <<Item(")", ZeroToken, Nil)>>
      [] node.kind = "Unary" ->
            <<Item("operator", node.Operator, Nil)>> \o Flatten(node.Right)
      [] node.kind = "Binary" ->
            Flatten(node.Left) \o <<Item("operator", node.Operator, Nil)>>
                \o Flatten(node.Right)
      [] node.kind = "Ternary" ->
            Flatten(node.Cond) \o <<Item("?", ZeroToken, Nil)>>
                \o Flatten(node.TrueBranch) \o <<Item(":", ZeroToken, Nil)>>
                \o Flatten(node.FalseBranch)

OnePlusTwoTimesThree == MakeTokens(<<Num1, Plus, Num2, Star, Num3>>)

\* C10: a tree the parser returns is the tree of the tokens it consumed
\* under the precedence ladder comma < ternary < equality < comparison <
\* addition < multiplication < unary < primary, every binary level
\* associating to the left, and the parser stops only before a token that
\* is no operator; '1 + 2 * 3' parses as Binary(1, +, Binary(2, *, 3)).
C10_PrecedenceLadder ==
    (FrontendParseReturned /\ ret # NilExpr) =>
        /\ Layered(ret)
        /\ Flatten(ret) = [i \in 1..current |-> ItemOf(tokens[i])]
        /\ peek(current).Type \notin InfixOperators \cup {"TokenQuestion"}
        /\ tokens = OnePlusTwoTimesThree =>
                ret = Binary(Literal(Num1.Literal), tokens[2],
                             Binary(Literal(Num2.Literal), tokens[4],
                                    Literal(Num3.Literal)))

\* C10 witness: two operators of one level have been parsed into a
\* left-nested tree, as for '1 - 2 - 3'.
C10_Witness ==
    /\ FrontendParseReturned /\ ret # NilExpr
    /\ ret.kind = "Binary" /\ ret.Left.kind = "Binary"
    /\ Level(ret.Left) = Level(ret)
    /\ ret.Right.kind = "Literal"
    /\ isAtEnd(current)

\* No ternary of the tree has a ternary or a comma as its condition.
RECURSIVE ConditionsAreEqualities(_)
ConditionsAreEqualities(node) ==
    CASE node.kind = "Literal" -> TRUE
      [] node.kind = "Grouping" -> ConditionsAreEqualities(node.Expression)
      [] node.kind = "Unary" -> ConditionsAreEqualities(node.Right)
      [] node.kind = "Binary" ->
            ConditionsAreEqualities(node.Left) /\ ConditionsAreEqualities(node.Right)
      [] node.kind = "Ternary" ->
            /\ Level(node.Cond) >= 3
            /\ ConditionsAreEqualities(node.Cond)
            /\ ConditionsAreEqualities(node.TrueBranch)
            /\ ConditionsAreEqualities(node.FalseBranch)

NestedTernary ==
    MakeTokens(<<KwTrue, Question, Num1, Colon, KwFalse, Question, Num2, Colon, Num3>>)

\* What Frontend.Parse returns for a source that is an expression of the
\* grammar, commas and ternaries inside ternary branches included: the
\* tree of all its tokens, with no diagnostic.
ExpressionsAreAccepted ==
    FrontendParseReturned =>
        /\ IsExpression(Source) =>
                /\ ret # NilExpr
                /\ SyntaxDiagnostics = <<>>
                /\ Flatten(ret) = [i \in 1..Len(Source) |-> ItemOf(tokens[i])]
                /\ ConditionsAreEqualities(ret)
        /\ tokens = NestedTernary =>
                ret = Ternary(Literal(Boolean(TRUE)), Literal(Num1.Literal),
                              Ternary(Literal(Boolean(FALSE)), Literal(Num2.Literal),
                                      Literal(Num3.Literal)))

\* C11: the ternary rule is right-associative with both branches parsed
\* as full expressions: after '?' and after ':' the rule calls
\* `expression`, so a comma or a nested ternary in either branch is
\* accepted and 'c1 ? a : c2 ? b : d' is Ternary(c1, a, Ternary(c2, b, d));
\* a true branch not followed by ':' is the syntax error 'Expect colon.'
\* at the token found there.
C11_TernaryRightAssociative ==
    /\ []ExpressionsAreAccepted
    /\ [][ /\ (About("ternary", "cond") /\ check(current, "TokenQuestion")) =>
                /\ Top'.fn = "expression"
                /\ current' = current + 1
           /\ (About("ternary", "true") /\ check(current, "TokenColon")) =>
                /\ Top'.fn = "expression"
                /\ current' = current + 1
           /\ (About("ternary", "true") /\ ~check(current, "TokenColon")) =>
                /\ panicking' = "parseError"
                /\ reporter' = error(reporter, peek(current), "Expect colon.")
                /\ Len(SyntaxDiagnostics') = 1
                /\ SyntaxDiagnostics'[1].message = "Expect colon."
           /\ About("ternary", "false") =>
                ret' = Ternary(Top.expr, Top.trueExpr, ret)
         ]_vars

\* C11 witness: a ternary whose true branch is a comma expression and
\* whose false branch is a ternary has been parsed to the end.
C11_Witness ==
    /\ FrontendParseReturned /\ ret # NilExpr /\ isAtEnd(current)
    /\ ret.kind = "Ternary"
    /\ ret.FalseBranch.kind = "Ternary"

\* A comma expression inside the true branch of a ternary has been parsed.
CommaInsideBranchParsed ==
    /\ FrontendParseReturned /\ ret # NilExpr
    /\ ret.kind = "Ternary" /\ Level(ret.TrueBranch) = 1

\* ScanTokens has returned.
ScanReturned == scanner.pc = "returned"

\* C12: for every source ScanTokens returns (nothing ends the process
\* before), and what it returns holds exactly one end-of-file token, its
\* last; the cursor stays inside the source, every read is inside it,
\* the cursor never moves back and every call of scanToken moves it
\* forward by at least one byte.
C12_ScanTokensAlwaysReturns ==
    /\ [](/\ scanner.fault = "none"
          /\ 0 <= scanner.start
          /\ scanner.start <= scanner.current
          /\ scanner.current <= Len(scanner.source)
          /\ ScanReturned =>
                /\ tokens = scanner.tokens
                /\ {i \in DOMAIN tokens : tokens[i].Type = "TokenEof"} = {Len(tokens)})
    /\ [][ /\ scanner'.current >= scanner.current
           /\ scanner.pc = "scanToken" => scanner'.current > scanner.current
         ]_vars

\* A byte no case of scanToken takes: it is no punctuation, no blank, no
\* quote, no digit and no letter.
Unrecognized(c) ==
    /\ c \notin {40, 41, 123, 125, 44, 46, 45, 43, 59, 42, 63, 58, 33, 61, 60, 62,
                  47, 32, 9, 13, 10, 34}
    /\ ~isDigit(c)
    /\ ~isAlpha(c)

\* The source with a space for each unrecognized byte.
Spaced(source) ==
    [i \in DOMAIN source |-> IF Unrecognized(source[i]) THEN 32 ELSE source[i]]

\* The scanner run to its end (or to what ends the process).
RECURSIVE ScanAll(_)
ScanAll(s) ==
    IF s.sc.pc = "returned" \/ s.sc.fault # "none" THEN s
    ELSE ScanAll(ScannerStep(s))

UnexpectedCharacters ==
    SelectSeq(reporter.stderr, LAMBDA r : r.message = "Unexpected character.")

\* Every unrecognized byte of the source was met by scanToken (none lies
\* inside a string or a comment), and there is one.
UnrecognizedMet ==
    /\ UnexpectedCharacters # <<>>
    /\ Len(UnexpectedCharacters) =
          Cardinality({i \in DOMAIN scanner.source : Unrecognized(scanner.source[i])})

\* C13: scanToken on an unrecognized byte reports 'Unexpected character.'
\* with the current line (which sets HadError), adds no token and leaves
\* the cursor on the next byte; ScanTokens then returns the tokens, lines
\* and end-of-file token included, that it returns for the source with a
\* space in place of each such byte.
C13_UnrecognizedCharacterIsSkipped ==
    /\ []((ScanReturned /\ UnrecognizedMet) =>
            /\ reporter.HadError
            /\ tokens[Len(tokens)].Type = "TokenEof"
            /\ tokens = ScanAll([sc |-> NewScanner(Spaced(scanner.source)),
                                 rep |-> NewReporter]).sc.tokens)
    /\ [][ ( /\ ScannerAt({"scanToken"})
             /\ Unrecognized(ByteAt(scanner, scanner.current)) ) =>
                /\ reporter' = Error(reporter, scanner.line, "Unexpected character.")
                /\ reporter'.HadError
                /\ scanner' = [scanner EXCEPT !.current = @ + 1, !.pc = "ScanTokens"]
         ]_vars

\* C13 witness: ScanTokens has returned tokens from both sides of an
\* unrecognized byte, as for '1@1'.
C13_Witness ==
    /\ ScanReturned /\ UnrecognizedMet
    /\ Len(tokens) = 3
    /\ \E i \in 2..(Len(scanner.source) - 1) :
          /\ Unrecognized(scanner.source[i])
          /\ isDigit(scanner.source[i - 1])
          /\ isDigit(scanner.source[i + 1])

\* Parser.Parse has returned a tree and no error, or no tree and the
\* error 'failed to parse' (after a report).
ParseOutcome ==
    /\ ParseReturned
    /\ \/ ret.e = "nil" /\ ret.expr # NilExpr
       \/ ret.e = "failed to parse" /\ ret.expr = NilExpr /\ reporter.HadError

\* C14: on every token sequence that ends in the end-of-file token,
\* Parser.Parse returns, and what it returns is a tree or a parse failure.
C14_ParseIsTotal == <>ParseOutcome

\* C14 witness: Parse has returned a tree made of all of a source of
\* MaxLen tokens.
C14_Witness ==
    /\ ParseOutcome
    /\ ret.e = "nil"
    /\ Len(Source) = MaxLen
    /\ current = Len(tokens) - 1

\* Parse has returned a parse failure found after tokens were consumed.
ParseFailedLate == ParseOutcome /\ ret.e = "failed to parse" /\ current >= 2

\* The functions of the parser that keep a token read with previous().
OperatorRules ==
    {"comma", "equality", "comparison", "addition", "multiplication", "unary"}

\* C15: the cursor of the parser is always the index of a token
\* (0 <= current <= len(tokens) - 1); a step never moves it back, moves
\* it by one token at most and never off the end-of-file token; and
\* previous() is read only after such a move, with current >= 1: the
\* operator a rule keeps is the token just passed.
C15_CursorStaysInsideTokens ==
    /\ [](0 <= current /\ current <= Len(tokens) - 1)
    /\ [][ /\ current' >= current
           /\ current' # current =>
                /\ current' = current + 1
                /\ ~isAtEnd(current)
                /\ previous(current') = peek(current)
           /\ \A i \in DOMAIN stack :
                ( /\ i \in DOMAIN stack'
                  /\ stack[i].fn \in OperatorRules
                  /\ stack'[i].fn = stack[i].fn
                  /\ stack'[i].operator # stack[i].operator ) =>
                    /\ current' >= 1
                    /\ current' = current + 1
                    /\ stack'[i].operator = previous(current')
         ]_vars

\* C15 witness: the parser has passed every token of a source of MaxLen
\* tokens, the last an operator read with previous(), and stands on the
\* end-of-file token.
C15_Witness ==
    /\ \E i \in DOMAIN stack :
          /\ stack[i].fn \in OperatorRules
          /\ stack[i].operator # ZeroToken
          /\ stack[i].operator = previous(current)
    /\ Len(Source) = MaxLen
    /\ current = Len(tokens) - 1
    /\ isAtEnd(current)

====
